---- MODULE Spec2Model ----
(***************************************************************************)
(* State-machine model of the MyVue reactive runtime (src/src/MyVue.js):   *)
(* the dependency registry (targetMap), ReactiveEffect.run / cleanup,      *)
(* track / trigger, the microtask-batched update queue, computed, watch,   *)
(* watchEffect, nextTick and the lifecycle-hook registration functions.    *)
(*                                                                         *)
(* JavaScript runs one call stack to completion and then drains the        *)
(* microtask queue.  The call stack is the variable ctl (a sequence of     *)
(* frames, the last one running); user functions (effect bodies, watch     *)
(* selectors and callbacks, the application script) are small programs of  *)
(* reactive operations interpreted one operation per step.                 *)
(***************************************************************************)
EXTENDS Integers, Sequences, FiniteSets, TLC

\* ------------------------------------------------------------------ bounds

\* Number of operations the application script issues in one behaviour.
MaxOps == 4

\* ------------------------------------------------------------ the universe

None == "none"

\* (record, key) pairs of observed records: state.count, number.value and
\* the synthetic computedObj.value of the computed `doubed`.
Keys == {"count", "number", "doubed"}

\* The keys the application writes directly.
PlainKeys == {"count", "number"}

Values == {0, 1}

\* `let ov;` / `let cacheValue;` before their first assignment.
Undef == <<-1>>

\* ReactiveEffect objects: two scheduler-less effects made by watchEffect,
\* the render effect of the root component, two watchers and the effect of
\* the computed value.
WatchEffects == {"E1", "E2"}

RenderEffects == {"R1"}

\* Two more effects made by watchEffect: E4 makes E3 inside its own
\* function (a nested effect), and the function of E3 can raise.
NestEffects == {"E3", "E4"}

\* The render effect of a component whose tree holds child components:
\* slot A is a child of the root element, slot B a child of an element
\* inside the root element.
ParentEffects == {"R2"}

Slots == {"A", "B"}

\* Two more effects made by watchEffect: E6 reads state.count through both
\* wrappers of the record, E7 through the second one only.
WrapEffects == {"E6", "E7"}

\* A component whose setup raises: its render effect is never made.
FailEffects == {"R3"}

\* One more effect made by watchEffect: its function reads number.value and
\* then writes it.
SelfEffects == {"E5"}

PlainEffects ==
    WatchEffects \cup RenderEffects \cup NestEffects \cup ParentEffects
        \cup SelfEffects \cup WrapEffects

Watchers == {"W1", "W2"}

Computeds == {"C"}

Effects == PlainEffects \cup Watchers \cup Computeds

\* The synthetic record key a computed value notifies its readers on.
ComputedKey(c) == "doubed"

\* The wrappers of a record: P1 is the one made by the reactive(obj) call
\* of the application, P2 the result of a second reactive(obj) on the same
\* record.
Wrappers == {"P1", "P2"}

\* An operation of a user function; `when` guards it by the value read last
\* (-1: unconditional), which makes a function's dependencies dynamic.  A
\* read or write of a property goes through the wrapper `via`.
GetVia(p, k) == [op |-> "get", k |-> k, v |-> 0, e |-> None, when |-> -1, via |-> p]

SetVia(p, k, v) == [op |-> "set", k |-> k, v |-> v, e |-> None, when |-> -1, via |-> p]

Get(k) == GetVia("P1", k)

SetK(k, v) == SetVia("P1", k, v)

CGet(c) == [op |-> "cget", k |-> None, v |-> 0, e |-> c, when |-> -1]

Stop(e) == [op |-> "stop", k |-> None, v |-> 0, e |-> e, when |-> -1]

WatchEffectOp(e) == [op |-> "watchEffect", k |-> None, v |-> 0, e |-> e, when |-> -1]

WatchOp(e) == [op |-> "watch", k |-> None, v |-> 0, e |-> e, when |-> -1]

NextTickOp(f) == [op |-> "nextTick", k |-> None, v |-> 0, e |-> f, when |-> -1]

Throw == [op |-> "throw", k |-> None, v |-> 0, e |-> None, when |-> -1]

MountOp(r) == [op |-> "mount", k |-> None, v |-> 0, e |-> r, when |-> -1]

OnMountedOp(h) == [op |-> "onMounted", k |-> None, v |-> 0, e |-> h, when |-> -1]

OnUpdatedOp(h) == [op |-> "onUpdated", k |-> None, v |-> 0, e |-> h, when |-> -1]

When(v, o) == [o EXCEPT !.when = v]

\* The function wrapped by each effect (this.fn): its result is the sequence
\* of the values it read.  For the render effect it is the component's
\* render function, and the values read are the text the vnode displays.
Fn(e) ==
    CASE e = "E1" -> <<Get("count"), When(1, CGet("C"))>>
      [] e = "R1" -> <<Get("count")>>
      [] e = "R2" -> <<Get("count")>>
      [] e = "E3" -> <<Get("count"), When(1, Throw)>>
      [] e = "E4" -> <<WatchEffectOp("E3"), Get("number")>>
      [] e = "E2" -> <<Get("number"), SetK("count", 1)>>
      [] e = "E5" -> <<Get("number"), SetK("number", 1)>>
      [] e = "E6" -> <<GetVia("P1", "count"), GetVia("P2", "count")>>
      [] e = "E7" -> <<GetVia("P2", "count")>>
      [] e = "W1" -> <<Get("count")>>
      [] e = "W2" -> <<Get("count"), Get("number"), CGet("C")>>
      [] e = "C" -> <<Get("number")>>

\* The callback of each watcher; its guards test the last element of
\* newVal.  W1 stops W2 and puts state.count back to 0 when it became 1.
Cb(w) ==
    CASE w = "W1" -> <<Stop("W2"), When(1, SetK("count", 0))>>
      [] w = "W2" -> <<>>

\* The lifecycle hooks: h1 to h4 are registered by the component's setup,
\* h5 and h6 by code that runs outside any setup, h7 by a setup that raises.
Hooks == {"h1", "h2", "h3", "h4", "h5", "h6", "h7"}

\* setup() of the root component, and a setup() that raises after it
\* registered a hook.
SetupCode(r) ==
    IF r \in FailEffects THEN <<OnMountedOp("h7"), Throw>>
    ELSE <<OnMountedOp("h1"), OnUpdatedOp("h2"), OnUpdatedOp("h3"), OnMountedOp("h4")>>

\* A hook only logs.
HookCode(h) == <<>>

\* The functions handed to nextTick: none at all (`await nextTick()`), one
\* that only logs, one that raises, one that calls nextTick again.
TickFns == {"none", "T1", "T2", "T3"}

TickCode(f) ==
    CASE f = "none" -> <<>>
      [] f = "T1" -> <<>>
      [] f = "T2" -> <<Throw>>
      [] f = "T3" -> <<NextTickOp("T1")>>

\* ------------------------------------------------------------------- state

VARIABLES
    val,               \* the observed records' properties
    targetMap,         \* key -> bucket (depSet), in insertion order
    deps,              \* effect.deps: the buckets an effect recorded
    activeEffect,
    effectStack,
    updateQueue,       \* the Set of pending effects, in insertion order
    updatePendding,
    dirty,             \* computed: dirty
    cacheValue,        \* computed: cacheValue
    ov,                \* watch: ov
    created,           \* the effects constructed so far
    microtasks,        \* the host's microtask queue
    inTask,            \* the application script of this macrotask is running
    ctl,               \* the call stack
    ret,               \* the value the last returning function returned
    exc,               \* an exception is propagating up the call stack
    nextTickPending,
    nextTickCallbacks,
    promise,           \* the awaitables nextTick returned, in call order
    currentInstance,
    inst,              \* the ComponentInstance of each mounted component
    dom,               \* the child nodes of the container, in order
    elCount,           \* the host nodes created so far
    comps,             \* the instances of child components, in creation order
    gh                 \* history variables, read by the properties only

vars == <<val, targetMap, deps, activeEffect, effectStack, updateQueue,
          updatePendding, dirty, cacheValue, ov, created, microtasks, inTask,
          ctl, ret, exc, nextTickPending, nextTickCallbacks, promise,
          currentInstance, inst, dom, elCount, comps, gh>>

\* The state of nextTick.
tickVars == <<nextTickPending, nextTickCallbacks, promise>>

\* The state of the renderer and of the components.
compVars == <<currentInstance, inst, dom, elCount, comps>>

\* ----------------------------------------------------------------- helpers

Range(s) == {s[i] : i \in 1..Len(s)}

\* Set.prototype.add on an insertion-ordered Set.
SetAdd(s, e) == IF e \in Range(s) THEN s ELSE Append(s, e)

\* Set.prototype.delete.
SetDelete(s, e) == SelectSeq(s, LAMBDA x : x # e)

Top == ctl[Len(ctl)]

Pop == SubSeq(ctl, 1, Len(ctl) - 1)

ReplaceTop(f) == [ctl EXCEPT ![Len(ctl)] = f]

FnFrame(code, owner) == [t |-> "fn", code |-> code, pc |-> 1, acc |-> <<>>, owner |-> owner]

RunFrame(e) == [t |-> "run", e |-> e]

\* The microtask queued by trigger (queueMicrotask) and the one queued by
\* nextTick for the promise p (Promise.resolve().then).
FlushTask == [t |-> "flush", p |-> 0]

TickTask(p) == [t |-> "tick", p |-> p]

\* A frame is running, and no exception is propagating.
Running == ctl # <<>> /\ ~exc

InFn == Running /\ Top.t = "fn" /\ Top.pc <= Len(Top.code)

CurOp == Top.code[Top.pc]

\* The guard of the operation at pc holds.
Taken ==
    CurOp.when = -1 \/ (Top.acc # <<>> /\ Top.acc[Len(Top.acc)] = CurOp.when)

Next1(f) == [f EXCEPT !.pc = @ + 1]

\* --------------------------------------------------------- track / cleanup

\* A registry keyed by the wrapper the access went through.
BucketByWrapper(o) == IF o.via = "P1" THEN o.k ELSE "P2.count"

\* The registry key of the access o: the get and set handlers of a wrapper
\* call track(target, key) and trigger(target, key) with the wrapped record,
\* whichever wrapper the access went through.
Bucket(o) == o.k

\* track(target, key): the registry after the call.
TrackMap(k) ==
    IF activeEffect = None THEN targetMap
    ELSE LET cur == IF k \in DOMAIN targetMap THEN targetMap[k] ELSE <<>>
         IN [j \in DOMAIN targetMap \cup {k} |->
                IF j = k THEN SetAdd(cur, activeEffect) ELSE targetMap[j]]

\* track(target, key): activeEffect.deps.add(depSet).
TrackDeps(k) ==
    IF activeEffect = None THEN deps
    ELSE [deps EXCEPT ![activeEffect] = @ \cup {k}]

\* A cleanup that leaves the effect in its buckets.
CleanupInKeep(m, e) == m

\* cleanup(): this.deps.forEach(dep => dep.delete(this)), on registry m.
CleanupIn(m, e) ==
    [j \in DOMAIN m |-> IF j \in deps[e] THEN SetDelete(m[j], e) ELSE m[j]]

\* cleanup(): `this.deps.length = 0` sets a property of the Set and removes
\* nothing from it.
CleanupDeps(e) == deps

\* A queue that is a list: updateQueue.push(effect).
QueueAddPush(e) == Append(updateQueue, e)

\* The update queue after updateQueue.add(effect).
QueueAdd(e) == SetAdd(updateQueue, e)

\* trigger(target, key) up to its snapshot: no frame when the registry holds
\* no bucket for the key (the early returns), else the loop over
\* `new Set(depSet)`.  exp, dis, hit and late are history fields.
TriggerFrames(k, late) ==
    IF k \notin DOMAIN targetMap THEN <<>>
    ELSE <<[t |-> "trigger", k |-> k, snap |-> targetMap[k], i |-> 1,
            exp |-> {e \in Effects : k \in gh.reads[e] /\ e \notin gh.disposed},
            dis |-> gh.disposed, hit |-> {}, calls |-> <<>>, late |-> late]>>

\* ------------------------------------------------------- history variables

Min(a, b) == IF a < b THEN a ELSE b

StackTop == IF effectStack = <<>> THEN None ELSE effectStack[Len(effectStack)]

\* A read of key k: it is charged to the effect on top of the effect stack.
TrackGhost(g, k) ==
    IF effectStack = <<>> THEN g
    ELSE [g EXCEPT !.reads[StackTop] = @ \cup {k}]

\* run() of effect e begins.
RunGhost(g, e) ==
    [g EXCEPT !.reads[e] = {},
              !.disposed = @ \ {e},
              !.stale[e] = FALSE,
              !.runsAfterStop[e] = IF e \in g.stopped THEN Min(@ + 1, 2) ELSE @]

GhostInit ==
    [ops |-> 0,
     reads |-> [e \in Effects |-> {}],
     disposed |-> {},
     stopped |-> {},
     stale |-> [e \in Effects |-> FALSE],
     runsAfterStop |-> [e \in Effects |-> 0],
     syncHits |-> [e \in PlainEffects |-> 0],
     due |-> {},
     dueHits |-> [e \in PlainEffects |-> 0],
     dueVal |-> [k \in PlainKeys |-> 0],
     flushRuns |-> [e \in Effects |-> 0],
     drainWrites |-> {},
     seen |-> [e \in Effects |-> Undef],
     lateCb |-> {},
     staleRead |-> FALSE,
     eager |-> [w \in Watchers |-> Undef],
     news |-> [w \in Watchers |-> <<>>],
     olds |-> [w \in Watchers |-> <<>>],
     truth |-> [w \in Watchers |-> <<>>],
     wrote |-> {},
     hookCalls |-> {},
     thrown |-> 0,
     renderRuns |-> 0,
     renderDone |-> 0,
     hookLog |-> <<>>,
     regs |-> <<>>,
     invoked |-> <<>>,
     skipped |-> {},
     early |-> {},
     uncaught |-> 0,
     aborted |-> FALSE]

\* new ComponentInstance(); vnode is empty for null, el is 0 for undefined.
NewInstance ==
    [hooks |-> [mounted |-> <<>>, updated |-> <<>>], isMounted |-> FALSE,
     vnode |-> <<>>]

\* The frames of this.fn() of effect e.  The function of a render effect
\* goes on after instance.render returned (frame "render").
Body(e) ==
    IF e \in RenderEffects \cup ParentEffects
    THEN <<[t |-> "render", e |-> e, st |-> "fn", phase |-> "mounted",
            vnode |-> [children |-> Undef, el |-> 0], i |-> 1],
           FnFrame(Fn(e), e)>>
    ELSE <<FnFrame(Fn(e), e)>>

\* -------------------------------------------------------------------- Init

Init ==
    /\ val = [k \in PlainKeys |-> 0]
    /\ targetMap = <<>>
    /\ deps = [e \in Effects |-> {}]
    /\ activeEffect = None
    /\ effectStack = <<>>
    /\ updateQueue = <<>>
    /\ updatePendding = FALSE
    /\ dirty = [c \in Computeds |-> TRUE]
    /\ cacheValue = [c \in Computeds |-> Undef]
    /\ ov = [w \in Watchers |-> Undef]
    /\ created = Computeds
    /\ microtasks = <<>>
    /\ inTask = FALSE
    /\ ctl = <<>>
    /\ ret = Undef
    /\ exc = FALSE
    /\ nextTickPending = FALSE
    /\ nextTickCallbacks = <<>>
    /\ promise = <<>>
    /\ currentInstance = None
    /\ inst = [r \in RenderEffects \cup ParentEffects \cup FailEffects |-> NewInstance]
    /\ dom = <<>>
    /\ elCount = 0
    /\ comps = <<>>
    /\ gh = GhostInit

\* ------------------------------------------------- the application script

\* What the application may call next: writes of observed properties, a read
\* of the computed value, watchEffect / watch of an effect not yet made, and
\* the disposer of one that was.
TopOps ==
    {SetK(k, v) : k \in PlainKeys, v \in Values}
        \cup {CGet(c) : c \in Computeds}
        \cup {WatchEffectOp(e) : e \in WatchEffects \ created}
        \cup {WatchOp(w) : w \in Watchers \ created}
        \cup {Stop(e) : e \in created \cap (WatchEffects \cup Watchers)}

\* The script of the current macrotask calls one more operation.  It runs
\* only on an empty call stack, and not between two microtasks.
User ==
    /\ ctl = <<>>
    /\ inTask \/ microtasks = <<>>
    /\ gh.ops < MaxOps
    /\ \E o \in TopOps : ctl' = <<FnFrame(<<o>>, "user")>>
    /\ inTask' = TRUE
    /\ gh' = [gh EXCEPT !.ops = @ + 1]
    /\ UNCHANGED compVars
    /\ UNCHANGED <<exc, tickVars>>
    /\ UNCHANGED <<val, targetMap, deps, activeEffect, effectStack, updateQueue,
                   updatePendding, dirty, cacheValue, ov, created, microtasks, ret>>

\* ------------------------------------------------ steps of a user function

\* An operation whose guard is false is not executed.
StepSkip ==
    /\ InFn /\ ~Taken
    /\ ctl' = ReplaceTop(Next1(Top))
    /\ UNCHANGED compVars
    /\ UNCHANGED <<exc, tickVars>>
    /\ UNCHANGED <<val, targetMap, deps, activeEffect, effectStack, updateQueue,
                   updatePendding, dirty, cacheValue, ov, created, microtasks,
                   inTask, ret, gh>>

\* reactive get: track(target, key), then Reflect.get.
StepGet ==
    /\ InFn /\ Taken /\ CurOp.op = "get"
    /\ targetMap' = TrackMap(Bucket(CurOp))
    /\ deps' = TrackDeps(Bucket(CurOp))
    /\ ctl' = ReplaceTop([Top EXCEPT !.pc = @ + 1, !.acc = Append(@, val[CurOp.k])])
    /\ gh' = TrackGhost(gh, CurOp.k)
    /\ UNCHANGED compVars
    /\ UNCHANGED <<exc, tickVars>>
    /\ UNCHANGED <<val, activeEffect, effectStack, updateQueue, updatePendding,
                   dirty, cacheValue, ov, created, microtasks, inTask, ret>>

\* reactive set: Reflect.set, then trigger(target, key).
StepSet ==
    /\ InFn /\ Taken /\ CurOp.op = "set"
    /\ val' = [val EXCEPT ![CurOp.k] = CurOp.v]
    /\ ctl' = ReplaceTop(Next1(Top)) \o TriggerFrames(Bucket(CurOp), gh.stopped)
    /\ gh' = [gh EXCEPT
                !.drainWrites = IF inTask THEN @ ELSE @ \cup {CurOp.k},
                !.wrote = @ \cup {w \in Watchers :
                                    /\ gh.eager[w] # Undef
                                    /\ \E i \in 1..Len(Fn(w)) :
                                          \/ Fn(w)[i].k = CurOp.k
                                          \/ /\ Fn(w)[i].op = "cget"
                                             /\ \E j \in 1..Len(Fn(Fn(w)[i].e)) :
                                                   Fn(Fn(w)[i].e)[j].k = CurOp.k}]
    /\ UNCHANGED compVars
    /\ UNCHANGED <<exc, tickVars>>
    /\ UNCHANGED <<targetMap, deps, activeEffect, effectStack, updateQueue,
                   updatePendding, dirty, cacheValue, ov, created, microtasks,
                   inTask, ret>>

\* The value the derivation of c has on the current values of the records.
Ideal(c) == [i \in 1..Len(Fn(c)) |-> val[Fn(c)[i].k]]

\* computed get value(): track(computedObj, 'value'); the value is clean and
\* the cache is returned.
StepCGetCached ==
    /\ InFn /\ Taken /\ CurOp.op = "cget" /\ ~dirty[CurOp.e]
    /\ targetMap' = TrackMap(ComputedKey(CurOp.e))
    /\ deps' = TrackDeps(ComputedKey(CurOp.e))
    /\ ctl' = ReplaceTop([Top EXCEPT !.pc = @ + 1,
                                     !.acc = @ \o cacheValue[CurOp.e]])
    /\ gh' = [TrackGhost(gh, ComputedKey(CurOp.e)) EXCEPT
                !.staleRead = @ \/ cacheValue[CurOp.e] # Ideal(CurOp.e)]
    /\ UNCHANGED compVars
    /\ UNCHANGED <<exc, tickVars>>
    /\ UNCHANGED <<val, activeEffect, effectStack, updateQueue, updatePendding,
                   dirty, cacheValue, ov, created, microtasks, inTask, ret>>

\* computed get value(): track(computedObj, 'value'); the value is dirty and
\* computedEffect.run() begins (cleanup, push, activeEffect = this, fn()).
StepCGetDirty ==
    /\ InFn /\ Taken /\ CurOp.op = "cget" /\ dirty[CurOp.e]
    /\ targetMap' = CleanupIn(TrackMap(ComputedKey(CurOp.e)), CurOp.e)
    /\ deps' = TrackDeps(ComputedKey(CurOp.e))
    /\ effectStack' = Append(effectStack, CurOp.e)
    /\ activeEffect' = CurOp.e
    /\ ctl' = ctl \o <<[t |-> "cget", e |-> CurOp.e], RunFrame(CurOp.e),
                       FnFrame(Fn(CurOp.e), CurOp.e)>>
    /\ gh' = RunGhost(TrackGhost(gh, ComputedKey(CurOp.e)), CurOp.e)
    /\ UNCHANGED compVars
    /\ UNCHANGED <<exc, tickVars>>
    /\ UNCHANGED <<val, updateQueue, updatePendding, dirty, cacheValue, ov,
                   created, microtasks, inTask, ret>>

\* computed get value(), after run() returned: cacheValue = res; dirty =
\* false; return cacheValue (to the function that read .value).
CGetReturn ==
    /\ Running /\ Top.t = "cget"
    /\ cacheValue' = [cacheValue EXCEPT ![Top.e] = ret]
    /\ dirty' = [dirty EXCEPT ![Top.e] = FALSE]
    /\ LET below == ctl[Len(ctl) - 1]
       IN ctl' = [Pop EXCEPT ![Len(ctl) - 1] =
                     [below EXCEPT !.pc = @ + 1, !.acc = @ \o ret]]
    /\ gh' = [gh EXCEPT !.staleRead = @ \/ ret # Ideal(Top.e)]
    /\ UNCHANGED compVars
    /\ UNCHANGED <<exc, tickVars>>
    /\ UNCHANGED <<val, targetMap, deps, activeEffect, effectStack, updateQueue,
                   updatePendding, ov, created, microtasks, inTask, ret>>

\* The disposer returned by watch / watchEffect: effect.cleanup().  A
\* disposer that was never made is not called (`$stopWatch?.value?.()`).
StepStop ==
    /\ InFn /\ Taken /\ CurOp.op = "stop"
    /\ targetMap' = IF CurOp.e \in created THEN CleanupIn(targetMap, CurOp.e)
                    ELSE targetMap
    /\ deps' = IF CurOp.e \in created THEN CleanupDeps(CurOp.e) ELSE deps
    /\ ctl' = ReplaceTop(Next1(Top))
    /\ gh' = IF CurOp.e \in created
             THEN [gh EXCEPT !.disposed = @ \cup {CurOp.e},
                             !.stopped = @ \cup {CurOp.e}]
             ELSE gh
    /\ UNCHANGED compVars
    /\ UNCHANGED <<exc, tickVars>>
    /\ UNCHANGED <<val, activeEffect, effectStack, updateQueue, updatePendding,
                   dirty, cacheValue, ov, created, microtasks, inTask, ret>>

\* watchEffect(gatter): new ReactiveEffect(gatter); watchEffect.run().
StepWatchEffect ==
    /\ InFn /\ Taken /\ CurOp.op = "watchEffect"
    /\ created' = created \cup {CurOp.e}
    /\ targetMap' = CleanupIn(targetMap, CurOp.e)
    /\ effectStack' = Append(effectStack, CurOp.e)
    /\ activeEffect' = CurOp.e
    /\ ctl' = ReplaceTop(Next1(Top)) \o <<RunFrame(CurOp.e), FnFrame(Fn(CurOp.e), CurOp.e)>>
    /\ gh' = RunGhost(gh, CurOp.e)
    /\ UNCHANGED compVars
    /\ UNCHANGED <<exc, tickVars>>
    /\ UNCHANGED <<val, deps, updateQueue, updatePendding, dirty, cacheValue, ov,
                   microtasks, inTask, ret>>

\* watch(gatter, cb): new ReactiveEffect(gatter, scheduler); the eager
\* watchEffect.run() whose result seeds ov.
StepWatch ==
    /\ InFn /\ Taken /\ CurOp.op = "watch"
    /\ created' = created \cup {CurOp.e}
    /\ targetMap' = CleanupIn(targetMap, CurOp.e)
    /\ effectStack' = Append(effectStack, CurOp.e)
    /\ activeEffect' = CurOp.e
    /\ ctl' = ReplaceTop(Next1(Top)) \o <<[t |-> "wcreate", e |-> CurOp.e],
                                          RunFrame(CurOp.e), FnFrame(Fn(CurOp.e), CurOp.e)>>
    /\ gh' = RunGhost(gh, CurOp.e)
    /\ UNCHANGED compVars
    /\ UNCHANGED <<exc, tickVars>>
    /\ UNCHANGED <<val, deps, updateQueue, updatePendding, dirty, cacheValue, ov,
                   microtasks, inTask, ret>>

\* watch(gatter, cb): ov = watchEffect.run().
WatchCreateEnd ==
    /\ Running /\ Top.t = "wcreate"
    /\ ov' = [ov EXCEPT ![Top.e] = ret]
    /\ ctl' = Pop
    /\ gh' = [gh EXCEPT !.eager[Top.e] = ret]
    /\ UNCHANGED compVars
    /\ UNCHANGED <<exc, tickVars>>
    /\ UNCHANGED <<val, targetMap, deps, activeEffect, effectStack, updateQueue,
                   updatePendding, dirty, cacheValue, created, microtasks, inTask, ret>>

\* A user function returns the values it read.
FnReturn ==
    /\ Running /\ Top.t = "fn" /\ Top.pc > Len(Top.code)
    /\ ret' = Top.acc
    /\ ctl' = Pop
    /\ gh' = IF Top.owner \in Effects THEN [gh EXCEPT !.seen[Top.owner] = Top.acc]
             ELSE gh
    /\ UNCHANGED compVars
    /\ UNCHANGED <<exc, tickVars>>
    /\ UNCHANGED <<val, targetMap, deps, activeEffect, effectStack, updateQueue,
                   updatePendding, dirty, cacheValue, ov, created, microtasks, inTask>>

\* A run() that keeps no stack: on exit no effect is active.
RunFinallyReset ==
    /\ Running /\ Top.t = "run"
    /\ effectStack' = SubSeq(effectStack, 1, Len(effectStack) - 1)
    /\ activeEffect' = None
    /\ ctl' = Pop
    /\ UNCHANGED compVars
    /\ UNCHANGED <<exc, tickVars>>
    /\ UNCHANGED <<val, targetMap, deps, updateQueue, updatePendding, dirty,
                   cacheValue, ov, created, microtasks, inTask, ret, gh>>

\* run(): finally { effectStack.pop(); activeEffect = effectStack[length - 1] }
\* and `return res`.
RunFinally ==
    /\ Running /\ Top.t = "run"
    /\ effectStack' = SubSeq(effectStack, 1, Len(effectStack) - 1)
    /\ activeEffect' = IF Len(effectStack) > 1 THEN effectStack[Len(effectStack) - 1]
                       ELSE None
    /\ ctl' = Pop
    /\ UNCHANGED compVars
    /\ UNCHANGED <<exc, tickVars>>
    /\ UNCHANGED <<val, targetMap, deps, updateQueue, updatePendding, dirty,
                   cacheValue, ov, created, microtasks, inTask, ret, gh>>

\* ----------------------------------------------------------------- trigger

\* A trigger that walks the bucket itself instead of a copy of it.
MembersLive(f) == targetMap[f.k]

\* The members trigger walks: effects = new Set(depSet), taken when the
\* trigger started.
Members(f) == f.snap

\* The member effects.forEach is at.
Cur(f) == Members(f)[f.i]

InTrigger == Running /\ Top.t = "trigger" /\ Top.i <= Len(Members(Top))

Hit(f) ==
    [f EXCEPT !.i = @ + 1, !.hit = @ \cup {Cur(f)}, !.calls = Append(@, Cur(f))]

\* effects.forEach: an effect without a scheduler is added to updateQueue.
NotifyPlain ==
    /\ InTrigger /\ Cur(Top) \in PlainEffects
    /\ updateQueue' = QueueAdd(Cur(Top))
    /\ ctl' = ReplaceTop(Hit(Top))
    /\ gh' = [gh EXCEPT
                !.syncHits[Cur(Top)] = IF inTask THEN Min(@ + 1, 2) ELSE @,
                !.stale[Cur(Top)] = @ \/ ~inTask]
    /\ UNCHANGED compVars
    /\ UNCHANGED <<exc, tickVars>>
    /\ UNCHANGED <<val, targetMap, deps, activeEffect, effectStack, updatePendding,
                   dirty, cacheValue, ov, created, microtasks, inTask, ret>>

\* effects.forEach: effect.scheduler() of a watcher, which begins with
\* `const nv = watchEffect.run()`.
NotifyWatch ==
    /\ InTrigger /\ Cur(Top) \in Watchers
    /\ LET w == Cur(Top)
       IN /\ targetMap' = CleanupIn(targetMap, w)
          /\ effectStack' = Append(effectStack, w)
          /\ activeEffect' = w
          /\ ctl' = ReplaceTop(Hit(Top)) \o
                      <<[t |-> "wsched", e |-> w, st |-> "run", nv |-> Undef,
                         late |-> w \in Top.late],
                        RunFrame(w), FnFrame(Fn(w), w)>>
          /\ gh' = RunGhost(gh, w)
    /\ UNCHANGED compVars
    /\ UNCHANGED <<exc, tickVars>>
    /\ UNCHANGED <<val, deps, updateQueue, updatePendding, dirty, cacheValue, ov,
                   created, microtasks, inTask, ret>>

\* A computed scheduler that recomputes at once: dirty = true; this.run().
NotifyComputedEager ==
    /\ InTrigger /\ Cur(Top) \in Computeds
    /\ dirty' = [dirty EXCEPT ![Cur(Top)] = TRUE]
    /\ targetMap' = CleanupIn(targetMap, Cur(Top))
    /\ effectStack' = Append(effectStack, Cur(Top))
    /\ activeEffect' = Cur(Top)
    /\ ctl' = ReplaceTop(Hit(Top)) \o
                <<RunFrame(Cur(Top)), FnFrame(Fn(Cur(Top)), Cur(Top))>>
    /\ gh' = RunGhost(gh, Cur(Top))
    /\ UNCHANGED compVars
    /\ UNCHANGED <<exc, tickVars>>
    /\ UNCHANGED <<val, deps, updateQueue, updatePendding, cacheValue, ov,
                   created, microtasks, inTask, ret>>

\* effects.forEach: effect.scheduler() of a computed value:
\* dirty = true; trigger(computedObj, 'value').
NotifyComputed ==
    /\ InTrigger /\ Cur(Top) \in Computeds
    /\ dirty' = [dirty EXCEPT ![Cur(Top)] = TRUE]
    /\ ctl' = ReplaceTop(Hit(Top)) \o TriggerFrames(ComputedKey(Cur(Top)), Top.late)
    /\ UNCHANGED compVars
    /\ UNCHANGED <<exc, tickVars>>
    /\ UNCHANGED <<val, targetMap, deps, activeEffect, effectStack, updateQueue,
                   updatePendding, cacheValue, ov, created, microtasks, inTask,
                   ret, gh>>

\* A trigger that queues a flush whether or not one is pending.
TriggerEndAlways ==
    /\ Running /\ Top.t = "trigger" /\ Top.i > Len(Members(Top))
    /\ updatePendding' = TRUE
    /\ microtasks' = Append(microtasks, FlushTask)
    /\ ctl' = Pop
    /\ UNCHANGED compVars
    /\ UNCHANGED <<exc, tickVars>>
    /\ UNCHANGED <<val, targetMap, deps, activeEffect, effectStack, updateQueue,
                   dirty, cacheValue, ov, created, inTask, ret, gh>>

\* trigger, after the loop: if (!updatePendding) { updatePendding = true;
\* queueMicrotask(flush) }.
TriggerEnd ==
    /\ Running /\ Top.t = "trigger" /\ Top.i > Len(Members(Top))
    /\ updatePendding' = TRUE
    /\ microtasks' = IF updatePendding THEN microtasks ELSE Append(microtasks, FlushTask)
    /\ ctl' = Pop
    /\ UNCHANGED compVars
    /\ UNCHANGED <<exc, tickVars>>
    /\ UNCHANGED <<val, targetMap, deps, activeEffect, effectStack, updateQueue,
                   dirty, cacheValue, ov, created, inTask, ret, gh>>

\* ------------------------------------------------------ the watch scheduler

\* The value of the selector of w on the current values of the records.
SelValue(w) ==
    LET one(o) == IF o.op = "cget" THEN Ideal(o.e) ELSE <<val[o.k]>>
        F[i \in 0..Len(Fn(w))] == IF i = 0 THEN <<>> ELSE F[i - 1] \o one(Fn(w)[i])
    IN F[Len(Fn(w))]

\* scheduler of watch, after run() returned nv: cb(nv, ov).
WatchSchedCb ==
    /\ Running /\ Top.t = "wsched" /\ Top.st = "run"
    /\ ctl' = ReplaceTop([Top EXCEPT !.st = "cb", !.nv = ret]) \o
                <<[FnFrame(Cb(Top.e), "cb") EXCEPT !.acc = ret]>>
    /\ gh' = [gh EXCEPT !.news[Top.e] = Append(@, ret),
                        !.truth[Top.e] = Append(@, SelValue(Top.e)),
                        !.olds[Top.e] = Append(@, ov[Top.e]),
                        !.lateCb = IF Top.late THEN @ \cup {Top.e} ELSE @]
    /\ UNCHANGED compVars
    /\ UNCHANGED <<exc, tickVars>>
    /\ UNCHANGED <<val, targetMap, deps, activeEffect, effectStack, updateQueue,
                   updatePendding, dirty, cacheValue, ov, created, microtasks,
                   inTask, ret>>

\* scheduler of watch, after cb returned: ov = nv.
WatchSchedEnd ==
    /\ Running /\ Top.t = "wsched" /\ Top.st = "cb"
    /\ ov' = [ov EXCEPT ![Top.e] = Top.nv]
    /\ ctl' = Pop
    /\ UNCHANGED compVars
    /\ UNCHANGED <<exc, tickVars>>
    /\ UNCHANGED <<val, targetMap, deps, activeEffect, effectStack, updateQueue,
                   updatePendding, dirty, cacheValue, created, microtasks, inTask,
                   ret, gh>>

\* ------------------------------------------------- the render-queue flush

\* The microtask queued by trigger starts: updatePendding = false, then
\* updateQueue.forEach.
FlushBegin ==
    /\ ctl = <<>> /\ microtasks # <<>> /\ Head(microtasks).t = "flush"
    /\ microtasks' = Tail(microtasks)
    /\ inTask' = FALSE
    /\ updatePendding' = FALSE
    /\ ctl' = <<[t |-> "flush", i |-> 1]>>
    /\ gh' = [gh EXCEPT !.due = {e \in PlainEffects : gh.syncHits[e] >= 1},
                        !.dueHits = gh.syncHits,
                        !.dueVal = val,
                        !.syncHits = [e \in PlainEffects |-> 0],
                        !.flushRuns = [e \in Effects |-> 0],
                        !.drainWrites = {}]
    /\ UNCHANGED compVars
    /\ UNCHANGED <<exc, tickVars>>
    /\ UNCHANGED <<val, targetMap, deps, activeEffect, effectStack, updateQueue,
                   dirty, cacheValue, ov, created, ret>>

\* updateQueue.forEach(effect => effect.run()): a Set's forEach also visits
\* the members added while it runs.
FlushRun ==
    /\ Running /\ Top.t = "flush" /\ Top.i <= Len(updateQueue)
    /\ LET e == updateQueue[Top.i]
       IN /\ targetMap' = CleanupIn(targetMap, e)
          /\ effectStack' = Append(effectStack, e)
          /\ activeEffect' = e
          /\ ctl' = ReplaceTop([Top EXCEPT !.i = @ + 1]) \o <<RunFrame(e)>> \o Body(e)
          /\ gh' = [RunGhost(gh, e) EXCEPT
                      !.flushRuns[e] = Min(@ + 1, 2),
                      !.regs = [n \in DOMAIN gh.regs |->
                                  [gh.regs[n] EXCEPT !.owed = @ \ {e}]]]
    /\ UNCHANGED compVars
    /\ UNCHANGED <<exc, tickVars>>
    /\ UNCHANGED <<val, deps, updateQueue, updatePendding, dirty, cacheValue, ov,
                   created, microtasks, inTask, ret>>

\* A flush that ends without updateQueue.clear().
FlushEndKeep ==
    /\ Running /\ Top.t = "flush" /\ Top.i > Len(updateQueue)
    /\ ctl' = Pop
    /\ UNCHANGED compVars
    /\ UNCHANGED <<exc, tickVars>>
    /\ UNCHANGED <<val, targetMap, deps, activeEffect, effectStack, updateQueue,
                   updatePendding, dirty, cacheValue, ov, created, microtasks,
                   inTask, ret, gh>>

\* updateQueue.clear(), and the microtask ends.
FlushEnd ==
    /\ Running /\ Top.t = "flush" /\ Top.i > Len(updateQueue)
    /\ updateQueue' = <<>>
    /\ ctl' = Pop
    /\ UNCHANGED compVars
    /\ UNCHANGED <<exc, tickVars>>
    /\ UNCHANGED <<val, targetMap, deps, activeEffect, effectStack, updatePendding,
                   dirty, cacheValue, ov, created, microtasks, inTask, ret, gh>>

\* ---------------------------------------------------------------- nextTick

\* The script calls nextTick.
UserTick ==
    /\ ctl = <<>>
    /\ inTask \/ microtasks = <<>>
    /\ gh.ops < MaxOps
    /\ \E f \in TickFns : ctl' = <<FnFrame(<<NextTickOp(f)>>, "user")>>
    /\ inTask' = TRUE
    /\ gh' = [gh EXCEPT !.ops = @ + 1]
    /\ UNCHANGED compVars
    /\ UNCHANGED <<exc, tickVars>>
    /\ UNCHANGED <<val, targetMap, deps, activeEffect, effectStack, updateQueue,
                   updatePendding, dirty, cacheValue, ov, created, microtasks, ret>>

\* nextTick(fn): push the wrapper of fn, and in the executor of the returned
\* promise: if (!nextTickPending) { nextTickPending = true;
\* Promise.resolve().then(...) }.  Only that promise is captured by the
\* microtask.
StepNextTick ==
    /\ InFn /\ Taken /\ CurOp.op = "nextTick"
    /\ nextTickCallbacks' = Append(nextTickCallbacks,
                                   [f |-> CurOp.e, n |-> Len(promise) + 1])
    /\ promise' = Append(promise, "pending")
    /\ gh' = [gh EXCEPT !.regs = Append(@,
                [f |-> CurOp.e, from |-> Top.owner,
                 owed |-> IF inTask THEN Range(updateQueue) ELSE {}])]
    /\ nextTickPending' = TRUE
    /\ microtasks' = IF nextTickPending THEN microtasks
                     ELSE Append(microtasks, TickTask(Len(promise) + 1))
    /\ ctl' = ReplaceTop(Next1(Top))
    /\ UNCHANGED compVars
    /\ UNCHANGED <<val, targetMap, deps, activeEffect, effectStack, updateQueue,
                   updatePendding, dirty, cacheValue, ov, created, inTask, ret,
                   exc>>

\* A user function raises.
StepThrow ==
    /\ InFn /\ Taken /\ CurOp.op = "throw"
    /\ exc' = TRUE
    /\ gh' = [gh EXCEPT !.thrown = @ + 1]
    /\ UNCHANGED compVars
    /\ UNCHANGED tickVars
    /\ UNCHANGED <<val, targetMap, deps, activeEffect, effectStack, updateQueue,
                   updatePendding, dirty, cacheValue, ov, created, microtasks,
                   inTask, ctl, ret>>

\* The exception leaves a user function; when that was the last frame of
\* the task, the host reports the exception and goes on.
UnwindFn ==
    /\ ctl # <<>> /\ exc /\ Top.t = "fn"
    /\ ctl' = Pop
    /\ exc' = (Len(ctl) > 1)
    /\ gh' = [gh EXCEPT !.uncaught = IF Len(ctl) > 1 THEN @ ELSE @ + 1]
    /\ UNCHANGED compVars
    /\ UNCHANGED tickVars
    /\ UNCHANGED <<val, targetMap, deps, activeEffect, effectStack, updateQueue,
                   updatePendding, dirty, cacheValue, ov, created, microtasks,
                   inTask, ret>>

\* run(): the finally block when fn() raised: effectStack.pop(); activeEffect
\* = effectStack[length - 1]; the exception goes on to the caller of run().
UnwindRun ==
    /\ ctl # <<>> /\ exc /\ Top.t = "run"
    /\ effectStack' = SubSeq(effectStack, 1, Len(effectStack) - 1)
    /\ activeEffect' = IF Len(effectStack) > 1 THEN effectStack[Len(effectStack) - 1]
                       ELSE None
    /\ ctl' = Pop
    /\ UNCHANGED compVars
    /\ UNCHANGED <<exc, tickVars>>
    /\ UNCHANGED <<val, targetMap, deps, updateQueue, updatePendding, dirty,
                   cacheValue, ov, created, microtasks, inTask, ret, gh>>

\* The exception leaves updateQueue.forEach and the flush microtask:
\* the members not yet visited are not run and updateQueue.clear() is not
\* reached; the host reports the exception.
UnwindFlush ==
    /\ ctl # <<>> /\ exc /\ Top.t = "flush"
    /\ ctl' = Pop
    /\ exc' = FALSE
    /\ gh' = [gh EXCEPT !.uncaught = @ + 1, !.aborted = TRUE]
    /\ UNCHANGED compVars
    /\ UNCHANGED tickVars
    /\ UNCHANGED <<val, targetMap, deps, activeEffect, effectStack, updateQueue,
                   updatePendding, dirty, cacheValue, ov, created, microtasks,
                   inTask, ret>>

\* A flushCallbacks that leaves the pending flag set.
TickBeginKeepFlag ==
    /\ ctl = <<>> /\ microtasks # <<>> /\ Head(microtasks).t = "tick"
    /\ microtasks' = Tail(microtasks)
    /\ inTask' = FALSE
    /\ nextTickCallbacks' = <<>>
    /\ ctl' = <<[t |-> "tickflush", p |-> Head(microtasks).p,
                 copies |-> nextTickCallbacks, i |-> 1]>>
    /\ UNCHANGED compVars
    /\ UNCHANGED <<val, targetMap, deps, activeEffect, effectStack, updateQueue,
                   updatePendding, dirty, cacheValue, ov, created, ret, exc,
                   promise, nextTickPending, gh>>

\* A flushCallbacks that does not empty the callback list.
TickBeginKeepList ==
    /\ ctl = <<>> /\ microtasks # <<>> /\ Head(microtasks).t = "tick"
    /\ microtasks' = Tail(microtasks)
    /\ inTask' = FALSE
    /\ nextTickPending' = FALSE
    /\ ctl' = <<[t |-> "tickflush", p |-> Head(microtasks).p,
                 copies |-> nextTickCallbacks, i |-> 1]>>
    /\ UNCHANGED compVars
    /\ UNCHANGED <<val, targetMap, deps, activeEffect, effectStack, updateQueue,
                   updatePendding, dirty, cacheValue, ov, created, ret, exc,
                   promise, nextTickCallbacks, gh>>

\* The microtask of nextTick starts: flushCallbacks() sets nextTickPending =
\* false, copies the list and empties it.
TickBegin ==
    /\ ctl = <<>> /\ microtasks # <<>> /\ Head(microtasks).t = "tick"
    /\ microtasks' = Tail(microtasks)
    /\ inTask' = FALSE
    /\ nextTickPending' = FALSE
    /\ nextTickCallbacks' = <<>>
    /\ ctl' = <<[t |-> "tickflush", p |-> Head(microtasks).p,
                 copies |-> nextTickCallbacks, i |-> 1]>>
    /\ UNCHANGED compVars
    /\ UNCHANGED <<val, targetMap, deps, activeEffect, effectStack, updateQueue,
                   updatePendding, dirty, cacheValue, ov, created, ret, exc,
                   promise, gh>>

\* copies.forEach(cb => cb()): the wrapper calls fn if one was given.
TickCall ==
    /\ Running /\ Top.t = "tickflush" /\ Top.i <= Len(Top.copies)
    /\ ctl' = ReplaceTop([Top EXCEPT !.i = @ + 1]) \o
                <<FnFrame(TickCode(Top.copies[Top.i].f), "tick")>>
    /\ gh' = [gh EXCEPT
                !.invoked = Append(@, Top.copies[Top.i].n),
                !.early = IF gh.regs[Top.copies[Top.i].n].owed # {}
                          THEN @ \cup {Top.copies[Top.i].n} ELSE @]
    /\ UNCHANGED compVars
    /\ UNCHANGED <<exc, tickVars>>
    /\ UNCHANGED <<val, targetMap, deps, activeEffect, effectStack, updateQueue,
                   updatePendding, dirty, cacheValue, ov, created, microtasks,
                   inTask, ret>>

\* try { flushCallbacks(); resolve() }.
TickEnd ==
    /\ Running /\ Top.t = "tickflush" /\ Top.i > Len(Top.copies)
    /\ promise' = [promise EXCEPT ![Top.p] = "resolved"]
    /\ ctl' = Pop
    /\ UNCHANGED compVars
    /\ UNCHANGED <<val, targetMap, deps, activeEffect, effectStack, updateQueue,
                   updatePendding, dirty, cacheValue, ov, created, microtasks,
                   inTask, ret, exc, nextTickPending, nextTickCallbacks, gh>>

\* catch (error) { reject(error) }: the callbacks not yet called are dropped
\* with the frame.
TickCatch ==
    /\ ctl # <<>> /\ exc /\ Top.t = "tickflush"
    /\ promise' = [promise EXCEPT ![Top.p] = "rejected"]
    /\ exc' = FALSE
    /\ ctl' = Pop
    /\ gh' = [gh EXCEPT !.skipped = @ \cup
                {Top.copies[j].n : j \in Top.i..Len(Top.copies)}]
    /\ UNCHANGED compVars
    /\ UNCHANGED <<val, targetMap, deps, activeEffect, effectStack, updateQueue,
                   updatePendding, dirty, cacheValue, ov, created, microtasks,
                   inTask, ret, nextTickPending, nextTickCallbacks>>

\* ---------------------------------------------- components and life cycle

\* What the application may call next: createApp(App).mount(id), a hook
\* registration outside any setup, a write of state.count.
MountOps ==
    {MountOp(r) : r \in RenderEffects \ created}
        \cup {OnMountedOp("h5"), OnUpdatedOp("h6")}
        \cup {SetK("count", v) : v \in Values}

UserMount ==
    /\ ctl = <<>>
    /\ inTask \/ microtasks = <<>>
    /\ gh.ops < MaxOps
    /\ \E o \in MountOps : ctl' = <<FnFrame(<<o>>, "user")>>
    /\ inTask' = TRUE
    /\ gh' = [gh EXCEPT !.ops = @ + 1]
    /\ UNCHANGED compVars
    /\ UNCHANGED <<exc, tickVars>>
    /\ UNCHANGED <<val, targetMap, deps, activeEffect, effectStack, updateQueue,
                   updatePendding, dirty, cacheValue, ov, created, microtasks, ret>>

\* render(vnode, container) -> mountComponent: new ComponentInstance(), then
\* setupComponent up to the call of setup: currentInstance = instance.
StepMount ==
    /\ InFn /\ Taken /\ CurOp.op = "mount"
    /\ created' = created \cup {CurOp.e}
    /\ inst' = [inst EXCEPT ![CurOp.e] = NewInstance]
    /\ currentInstance' = CurOp.e
    /\ ctl' = ReplaceTop(Next1(Top)) \o
                <<[t |-> "setup", e |-> CurOp.e], FnFrame(SetupCode(CurOp.e), "setup")>>
    /\ UNCHANGED <<dom, elCount, comps>>
    /\ UNCHANGED <<exc, tickVars>>
    /\ UNCHANGED <<val, targetMap, deps, activeEffect, effectStack, updateQueue,
                   updatePendding, dirty, cacheValue, ov, microtasks, inTask, ret, gh>>

\* The hook list after onMounted(fn) / onUpdated(fn): fn is pushed if
\* currentInstance is set, and nothing happens otherwise.
Register(phase, h) ==
    IF currentInstance # None
    THEN [inst EXCEPT ![currentInstance].hooks[phase] = Append(@, h)]
    ELSE inst

\* onMounted(fn).
StepOnMounted ==
    /\ InFn /\ Taken /\ CurOp.op = "onMounted"
    /\ inst' = Register("mounted", CurOp.e)
    /\ ctl' = ReplaceTop(Next1(Top))
    /\ UNCHANGED <<exc, tickVars>>
    /\ gh' = [gh EXCEPT !.hookCalls = @ \cup
                {[h |-> CurOp.e, active |-> currentInstance # None,
                  kept |-> \E r \in RenderEffects :
                              CurOp.e \in Range(inst'[r].hooks.mounted),
                  raised |-> exc']}]
    /\ UNCHANGED <<currentInstance, dom, elCount, comps>>
    /\ UNCHANGED <<val, targetMap, deps, activeEffect, effectStack, updateQueue,
                   updatePendding, dirty, cacheValue, ov, created, microtasks,
                   inTask, ret>>

\* onUpdated(fn).
StepOnUpdated ==
    /\ InFn /\ Taken /\ CurOp.op = "onUpdated"
    /\ inst' = Register("updated", CurOp.e)
    /\ ctl' = ReplaceTop(Next1(Top))
    /\ UNCHANGED <<exc, tickVars>>
    /\ gh' = [gh EXCEPT !.hookCalls = @ \cup
                {[h |-> CurOp.e, active |-> currentInstance # None,
                  kept |-> \E r \in RenderEffects :
                              CurOp.e \in Range(inst'[r].hooks.updated),
                  raised |-> exc']}]
    /\ UNCHANGED <<currentInstance, dom, elCount, comps>>
    /\ UNCHANGED <<val, targetMap, deps, activeEffect, effectStack, updateQueue,
                   updatePendding, dirty, cacheValue, ov, created, microtasks,
                   inTask, ret>>

\* setupComponent after setup returned: currentInstance = null; then
\* setupRenderEffect: new ReactiveEffect(...) and instance.update(), which is
\* renderEffect.run().
SetupEnd ==
    /\ Running /\ Top.t = "setup"
    /\ currentInstance' = None
    /\ targetMap' = CleanupIn(targetMap, Top.e)
    /\ effectStack' = Append(effectStack, Top.e)
    /\ activeEffect' = Top.e
    /\ ctl' = Pop \o <<RunFrame(Top.e)>> \o Body(Top.e)
    /\ gh' = RunGhost(gh, Top.e)
    /\ UNCHANGED <<inst, dom, elCount, comps>>
    /\ UNCHANGED <<exc, tickVars>>
    /\ UNCHANGED <<val, deps, updateQueue, updatePendding, dirty, cacheValue, ov,
                   created, microtasks, inTask, ret>>

\* The exception of setup() leaves setupComponent and mountComponent:
\* `currentInstance = null` is not reached (no try / finally), and no render
\* effect is made.
UnwindSetup ==
    /\ ctl # <<>> /\ exc /\ Top.t = "setup"
    /\ ctl' = Pop
    /\ UNCHANGED compVars
    /\ UNCHANGED <<exc, tickVars>>
    /\ UNCHANGED <<val, targetMap, deps, activeEffect, effectStack, updateQueue,
                   updatePendding, dirty, cacheValue, ov, created, microtasks,
                   inTask, ret, gh>>

\* parent.replaceChild(el, oldEl) inside try / catch: it raises when oldEl
\* is not a child of the parent, and then the parent is left as it is.
ReplaceChild(d, el, oldEl) ==
    [j \in 1..Len(d) |-> IF d[j] = oldEl THEN el ELSE d[j]]

\* The container after renderVNode(vNodeOld, vnode, container) created the
\* node el for an element vnode; oldEl is 0 when vNodeOld has no el.
RenderVNode(d, oldEl, el) ==
    IF oldEl # 0 THEN ReplaceChild(d, el, oldEl) ELSE Append(d, el)

\* A render effect that never sets instance.isMounted.
RenderPatchNoFlag ==
    /\ Running /\ Top.t = "render" /\ Top.st = "fn"
    /\ LET r == Top.e
           el == elCount + 1
       IN /\ elCount' = el
          /\ dom' = RenderVNode(dom, 0, el)
          /\ inst' = inst
          /\ ctl' = ReplaceTop([Top EXCEPT
                        !.st = "hooks",
                        !.phase = "mounted",
                        !.vnode = [children |-> ret, el |-> el]])
    /\ gh' = [gh EXCEPT !.renderRuns = @ + 1]
    /\ UNCHANGED <<currentInstance, comps>>
    /\ UNCHANGED <<exc, tickVars>>
    /\ UNCHANGED <<val, targetMap, deps, activeEffect, effectStack, updateQueue,
                   updatePendding, dirty, cacheValue, ov, created, microtasks,
                   inTask, ret>>

\* The render effect after instance.render returned: patch(null, vnode) on
\* the first run, patch(instance.vnode, vnode) on the later ones, which
\* renders only if the children differ and otherwise leaves vnode.el unset.
RenderPatch ==
    /\ Running /\ Top.t = "render" /\ Top.st = "fn" /\ Top.e \in RenderEffects
    /\ LET r == Top.e
           old == inst[r].vnode
           first == ~inst[r].isMounted
           draw == first \/ old[1].children # ret
           oldEl == IF first THEN 0 ELSE old[1].el
           el == elCount + 1
       IN /\ elCount' = IF draw THEN el ELSE elCount
          /\ dom' = IF draw THEN RenderVNode(dom, oldEl, el) ELSE dom
          /\ inst' = [inst EXCEPT ![r].isMounted = TRUE]
          /\ ctl' = ReplaceTop([Top EXCEPT
                        !.st = "hooks",
                        !.phase = IF first THEN "mounted" ELSE "updated",
                        !.vnode = [children |-> ret, el |-> IF draw THEN el ELSE 0]])
    /\ gh' = [gh EXCEPT !.renderRuns = @ + 1]
    /\ UNCHANGED <<currentInstance, comps>>
    /\ UNCHANGED <<exc, tickVars>>
    /\ UNCHANGED <<val, targetMap, deps, activeEffect, effectStack, updateQueue,
                   updatePendding, dirty, cacheValue, ov, created, microtasks,
                   inTask, ret>>

\* The render effect of a component with child components, after
\* instance.render returned.  The children of its root element are a new
\* array on every run, so patch always calls renderVNode.  There a
\* component child of the root element is looked up among the children of
\* the previous tree and reuses the instance found if that is mounted; the
\* element child is rendered with no previous node, so the component below
\* it is looked up in nothing and is mounted by a nested render: a new
\* ComponentInstance, setupComponent (which ends with currentInstance =
\* null), and the first run of its render effect.
RenderPatchParent ==
    /\ Running /\ Top.t = "render" /\ Top.st = "fn" /\ Top.e \in ParentEffects
    /\ LET r == Top.e
           old == inst[r].vnode
           first == ~inst[r].isMounted
           oldEl == IF first THEN 0 ELSE old[1].el
           el == elCount + 1
           reuseA == ~first /\ old[1].comp["A"] # 0
           made == IF reuseA THEN <<"B">> ELSE <<"A", "B">>
           newComps == comps \o [i \in 1..Len(made) |->
                                   [slot |-> made[i], el |-> el + i]]
           compOf == [sl \in Slots |->
                        IF sl = "A" /\ reuseA THEN old[1].comp["A"]
                        ELSE Len(comps) + (IF sl = "B" THEN Len(made) ELSE 1)]
       IN /\ elCount' = el + Len(made)
          /\ comps' = newComps
          /\ dom' = RenderVNode(dom, oldEl, el)
          /\ inst' = [inst EXCEPT ![r].isMounted = TRUE]
          /\ currentInstance' = None
          /\ ctl' = ReplaceTop([Top EXCEPT
                        !.st = "hooks",
                        !.phase = IF first THEN "mounted" ELSE "updated",
                        !.vnode = [children |-> ret, el |-> el, comp |-> compOf]])
    /\ gh' = [gh EXCEPT !.renderRuns = @ + 1]
    /\ UNCHANGED <<exc, tickVars>>
    /\ UNCHANGED <<val, targetMap, deps, activeEffect, effectStack, updateQueue,
                   updatePendding, dirty, cacheValue, ov, created, microtasks,
                   inTask, ret>>

\* instance.hooks.mounted / updated .forEach(hook => hook({ el: vnode.el })).
RenderHook ==
    /\ Running /\ Top.t = "render" /\ Top.st = "hooks"
    /\ Top.i <= Len(inst[Top.e].hooks[Top.phase])
    /\ ctl' = ReplaceTop([Top EXCEPT !.i = @ + 1]) \o
                <<FnFrame(HookCode(inst[Top.e].hooks[Top.phase][Top.i]), "hook")>>
    /\ gh' = [gh EXCEPT !.hookLog = Append(@,
                [h |-> inst[Top.e].hooks[Top.phase][Top.i], phase |-> Top.phase,
                 run |-> gh.renderRuns, el |-> Top.vnode.el, dom |-> dom])]
    /\ UNCHANGED compVars
    /\ UNCHANGED <<exc, tickVars>>
    /\ UNCHANGED <<val, targetMap, deps, activeEffect, effectStack, updateQueue,
                   updatePendding, dirty, cacheValue, ov, created, microtasks,
                   inTask, ret>>

\* instance.vnode = vnode, and the function of the render effect returns.
RenderEnd ==
    /\ Running /\ Top.t = "render" /\ Top.st = "hooks"
    /\ Top.i > Len(inst[Top.e].hooks[Top.phase])
    /\ inst' = [inst EXCEPT ![Top.e].vnode = <<Top.vnode>>]
    /\ ret' = Undef
    /\ ctl' = Pop
    /\ gh' = [gh EXCEPT !.renderDone = @ + 1]
    /\ UNCHANGED <<currentInstance, dom, elCount, comps>>
    /\ UNCHANGED <<exc, tickVars>>
    /\ UNCHANGED <<val, targetMap, deps, activeEffect, effectStack, updateQueue,
                   updatePendding, dirty, cacheValue, ov, created, microtasks,
                   inTask>>

\* ----------------------------------------------------------- specification

Next ==
    \/ User
    \/ StepSkip
    \/ StepGet
    \/ StepSet
    \/ StepCGetCached
    \/ StepCGetDirty
    \/ CGetReturn
    \/ StepStop
    \/ StepWatchEffect
    \/ StepWatch
    \/ WatchCreateEnd
    \/ FnReturn
    \/ RunFinally
    \/ NotifyPlain
    \/ NotifyWatch
    \/ NotifyComputed
    \/ TriggerEnd
    \/ WatchSchedCb
    \/ WatchSchedEnd
    \/ FlushBegin
    \/ FlushRun
    \/ FlushEnd

Spec == Init /\ [][Next]_vars

\* The application only calls nextTick.
NextTick ==
    \/ UserTick
    \/ StepNextTick
    \/ StepThrow
    \/ FnReturn
    \/ UnwindFn
    \/ TickBegin
    \/ TickCall
    \/ TickEnd
    \/ TickCatch

SpecTick == Init /\ [][NextTick]_vars

\* What the application may call when effect functions can raise: writes of
\* state.count, and watchEffect of E1 and of E4 (which makes E3).
ErrOps ==
    {SetK("count", v) : v \in Values}
        \cup {WatchEffectOp(e) : e \in {"E1", "E4"} \ created}

UserErr ==
    /\ ctl = <<>>
    /\ inTask \/ microtasks = <<>>
    /\ gh.ops < MaxOps
    /\ \E o \in ErrOps : ctl' = <<FnFrame(<<o>>, "user")>>
    /\ inTask' = TRUE
    /\ gh' = [gh EXCEPT !.ops = @ + 1]
    /\ UNCHANGED compVars
    /\ UNCHANGED <<exc, tickVars>>
    /\ UNCHANGED <<val, targetMap, deps, activeEffect, effectStack, updateQueue,
                   updatePendding, dirty, cacheValue, ov, created, microtasks, ret>>

\* Effect functions that raise, and effects made inside effects.
NextErr ==
    \/ UserErr
    \/ StepSkip
    \/ StepGet
    \/ StepSet
    \/ StepCGetCached
    \/ StepCGetDirty
    \/ CGetReturn
    \/ StepWatchEffect
    \/ StepThrow
    \/ FnReturn
    \/ RunFinally
    \/ UnwindFn
    \/ UnwindRun
    \/ UnwindFlush
    \/ NotifyPlain
    \/ TriggerEnd
    \/ FlushBegin
    \/ FlushRun
    \/ FlushEnd

SpecErr == Init /\ [][NextErr]_vars

\* What a script may call that exercises the update queue: writes of both
\* records, and watchEffect of effects that write while they run (E2, E5)
\* and of one that reads a computed value (E1).  No effect function raises.
QueueOps ==
    {SetK(k, v) : k \in PlainKeys, v \in Values}
        \cup {WatchEffectOp(e) : e \in {"E1", "E2", "E5"} \ created}

UserQueue ==
    /\ ctl = <<>>
    /\ inTask \/ microtasks = <<>>
    /\ gh.ops < MaxOps
    /\ \E o \in QueueOps : ctl' = <<FnFrame(<<o>>, "user")>>
    /\ inTask' = TRUE
    /\ gh' = [gh EXCEPT !.ops = @ + 1]
    /\ UNCHANGED compVars
    /\ UNCHANGED <<exc, tickVars>>
    /\ UNCHANGED <<val, targetMap, deps, activeEffect, effectStack, updateQueue,
                   updatePendding, dirty, cacheValue, ov, created, microtasks, ret>>

\* What the engine does next: the call stack runs to completion, then the
\* microtasks are drained.
StepQueue ==
    \/ StepSkip
    \/ StepGet
    \/ StepSet
    \/ StepCGetCached
    \/ StepCGetDirty
    \/ CGetReturn
    \/ StepWatchEffect
    \/ FnReturn
    \/ RunFinally
    \/ NotifyPlain
    \/ NotifyComputed
    \/ TriggerEnd
    \/ FlushBegin
    \/ FlushRun
    \/ FlushEnd

\* Effects that write during a drain.
NextQueue == UserQueue \/ StepQueue

SpecQueue == Init /\ [][NextQueue]_vars

\* The engine never stops while a frame is on the stack or a microtask is
\* queued; the script is free to stop calling.
SpecQueueFair == SpecQueue /\ WF_vars(StepQueue)

\* What a script that uses effects and nextTick together may call.
MixOps ==
    {SetK("count", v) : v \in Values}
        \cup {WatchEffectOp(e) : e \in {"E1"} \ created}
        \cup {NextTickOp("T1")}

UserMix ==
    /\ ctl = <<>>
    /\ inTask \/ microtasks = <<>>
    /\ gh.ops < MaxOps
    /\ \E o \in MixOps : ctl' = <<FnFrame(<<o>>, "user")>>
    /\ inTask' = TRUE
    /\ gh' = [gh EXCEPT !.ops = @ + 1]
    /\ UNCHANGED compVars
    /\ UNCHANGED <<exc, tickVars>>
    /\ UNCHANGED <<val, targetMap, deps, activeEffect, effectStack, updateQueue,
                   updatePendding, dirty, cacheValue, ov, created, microtasks, ret>>

\* Writes, effects and nextTick in one script: the two kinds of microtask
\* share the host's queue.
NextMix ==
    \/ UserMix
    \/ StepSkip
    \/ StepGet
    \/ StepSet
    \/ StepCGetCached
    \/ StepCGetDirty
    \/ CGetReturn
    \/ StepWatchEffect
    \/ StepNextTick
    \/ FnReturn
    \/ RunFinally
    \/ NotifyPlain
    \/ TriggerEnd
    \/ FlushBegin
    \/ FlushRun
    \/ FlushEnd
    \/ TickBegin
    \/ TickCall
    \/ TickEnd

SpecMix == Init /\ [][NextMix]_vars

\* What the application of a component with child components may call.
ChildOps ==
    {MountOp(r) : r \in ParentEffects \ created}
        \cup {SetK("count", v) : v \in Values}

UserChild ==
    /\ ctl = <<>>
    /\ inTask \/ microtasks = <<>>
    /\ gh.ops < MaxOps
    /\ \E o \in ChildOps : ctl' = <<FnFrame(<<o>>, "user")>>
    /\ inTask' = TRUE
    /\ gh' = [gh EXCEPT !.ops = @ + 1]
    /\ UNCHANGED compVars
    /\ UNCHANGED <<exc, tickVars>>
    /\ UNCHANGED <<val, targetMap, deps, activeEffect, effectStack, updateQueue,
                   updatePendding, dirty, cacheValue, ov, created, microtasks, ret>>

\* The application mounts a component whose tree holds child components,
\* and writes the state its render function reads.
NextChild ==
    \/ UserChild
    \/ StepMount
    \/ StepOnMounted
    \/ StepOnUpdated
    \/ SetupEnd
    \/ StepGet
    \/ StepSet
    \/ FnReturn
    \/ RunFinally
    \/ RenderPatchParent
    \/ RenderHook
    \/ RenderEnd
    \/ NotifyPlain
    \/ TriggerEnd
    \/ FlushBegin
    \/ FlushRun
    \/ FlushEnd

SpecChild == Init /\ [][NextChild]_vars

\* The application mounts the root component, registers hooks and writes.
NextMount ==
    \/ UserMount
    \/ StepMount
    \/ StepOnMounted
    \/ StepOnUpdated
    \/ SetupEnd
    \/ StepGet
    \/ StepSet
    \/ FnReturn
    \/ RunFinally
    \/ RenderPatch
    \/ RenderHook
    \/ RenderEnd
    \/ NotifyPlain
    \/ TriggerEnd
    \/ FlushBegin
    \/ FlushRun
    \/ FlushEnd

SpecMount == Init /\ [][NextMount]_vars

\* What the application may call when a setup can raise: mounting the root
\* component or the component whose setup raises, a hook registration
\* outside any setup, a write of state.count.
SetupOps ==
    {MountOp(r) : r \in (RenderEffects \cup FailEffects) \ created}
        \cup {OnMountedOp("h5"), OnUpdatedOp("h6")}
        \cup {SetK("count", v) : v \in Values}

UserSetup ==
    /\ ctl = <<>>
    /\ inTask \/ microtasks = <<>>
    /\ gh.ops < MaxOps
    /\ \E o \in SetupOps : ctl' = <<FnFrame(<<o>>, "user")>>
    /\ inTask' = TRUE
    /\ gh' = [gh EXCEPT !.ops = @ + 1]
    /\ UNCHANGED compVars
    /\ UNCHANGED <<exc, tickVars>>
    /\ UNCHANGED <<val, targetMap, deps, activeEffect, effectStack, updateQueue,
                   updatePendding, dirty, cacheValue, ov, created, microtasks, ret>>

\* Components whose setup returns, and one whose setup raises.
NextSetup ==
    \/ UserSetup
    \/ StepMount
    \/ StepOnMounted
    \/ StepOnUpdated
    \/ StepThrow
    \/ UnwindFn
    \/ UnwindSetup
    \/ SetupEnd
    \/ StepGet
    \/ StepSet
    \/ FnReturn
    \/ RunFinally
    \/ RenderPatch
    \/ RenderHook
    \/ RenderEnd
    \/ NotifyPlain
    \/ TriggerEnd
    \/ FlushBegin
    \/ FlushRun
    \/ FlushEnd

SpecSetup == Init /\ [][NextSetup]_vars

\* What a script with two wrappers of the record may call: writes of
\* state.count through either wrapper, and watchEffect of E6 and of E7.
WrapOps ==
    {SetVia(p, "count", v) : p \in Wrappers, v \in Values}
        \cup {WatchEffectOp(e) : e \in WrapEffects \ created}

UserWrap ==
    /\ ctl = <<>>
    /\ inTask \/ microtasks = <<>>
    /\ gh.ops < MaxOps
    /\ \E o \in WrapOps : ctl' = <<FnFrame(<<o>>, "user")>>
    /\ inTask' = TRUE
    /\ gh' = [gh EXCEPT !.ops = @ + 1]
    /\ UNCHANGED compVars
    /\ UNCHANGED <<exc, tickVars>>
    /\ UNCHANGED <<val, targetMap, deps, activeEffect, effectStack, updateQueue,
                   updatePendding, dirty, cacheValue, ov, created, microtasks, ret>>

\* One record read and written through two wrappers.
NextWrap ==
    \/ UserWrap
    \/ StepGet
    \/ StepSet
    \/ StepWatchEffect
    \/ FnReturn
    \/ RunFinally
    \/ NotifyPlain
    \/ TriggerEnd
    \/ FlushBegin
    \/ FlushRun
    \/ FlushEnd

SpecWrap == Init /\ [][NextWrap]_vars

\* ------------------------------------------------------------- properties

Subscribed(e, k) == k \in DOMAIN targetMap /\ e \in Range(targetMap[k])

Quiescent == ctl = <<>> /\ microtasks = <<>>

\* C2: an effect that was not disposed since its most recent run began is a
\* member of the bucket of (record, key) exactly when it read that key, as
\* the top of the effect stack, since that run began (a read with an empty
\* stack subscribes nothing); and a write notifies exactly the effects that
\* had read the key when the write was made.
C2_SubscribedIffRead ==
    /\ \A e \in Effects \ gh.disposed : \A k \in Keys :
          Subscribed(e, k) <=> k \in gh.reads[e]
    /\ \A i \in 1..Len(ctl) :
          ctl[i].t = "trigger" =>
             /\ (ctl[i].hit \ ctl[i].dis) \subseteq ctl[i].exp
             /\ ctl[i].i > Len(ctl[i].snap) => (ctl[i].hit \ ctl[i].dis) = ctl[i].exp

\* E1 read the computed value in an earlier run and not in its most recent
\* one: it has left that bucket, and a later write notified E1.
C2_Witness ==
    /\ "doubed" \in deps["E1"]
    /\ ~Subscribed("E1", "doubed")
    /\ "E1" \notin gh.disposed
    /\ Running /\ Top.t = "trigger" /\ Top.i > Len(Top.snap)
    /\ "E1" \in Top.hit

Count(q, x) == Cardinality({i \in 1..Len(q) : q[i] = x})

\* The key an effect's function reads first.
FirstKey(e) == Fn(e)[1].k

\* C1: a scheduler-less effect notified by n >= 1 writes of the script's
\* synchronous phase is held once in the update queue with exactly one flush
\* scheduled; that flush reruns it exactly once, and the rerun observes the
\* value the key had when the phase ended (unless the drain itself wrote the
\* key).
C1_CoalescedRerun ==
    /\ \A e \in PlainEffects :
          (gh.syncHits[e] >= 1 /\ ctl = <<>>) =>
             /\ Count(updateQueue, e) = 1
             /\ Count(microtasks, FlushTask) = 1
             /\ updatePendding
    /\ \A e \in gh.due :
          /\ gh.flushRuns[e] <= 1
          /\ ctl = <<>> =>
                /\ gh.flushRuns[e] = 1
                /\ FirstKey(e) \notin gh.drainWrites =>
                      gh.seen[e][1] = gh.dueVal[FirstKey(e)]

\* E1 was notified by two writes of one synchronous phase, the second of
\* which changed the value, and the flush that followed has completed.
C1_Witness ==
    /\ ctl = <<>>
    /\ "E1" \in gh.due
    /\ gh.dueHits["E1"] = 2
    /\ gh.flushRuns["E1"] = 1
    /\ gh.dueVal["count"] = 1
    /\ gh.seen["E1"][1] = 1

\* C3: once the system is quiescent, no scheduler-less effect is left that
\* was notified by a write made during a drain of the update queue and has
\* not been run since.
C3_NoLostUpdate ==
    Quiescent => \A e \in PlainEffects : ~gh.stale[e]

\* C5: the callback of a watcher is never invoked for a write made after
\* the watcher's disposer returned.
C5_DisposedWatcherSilent == gh.lateCb = {}

\* C6: after its disposer was called, the function of a scheduler-less
\* effect runs at most once more.
C6_DisposedEffectStops ==
    \A e \in PlainEffects : gh.runsAfterStop[e] <= 1

\* C7: every read of a computed value returns the derivation applied to the
\* current values of its dependencies.
C7_NeverStale == ~gh.staleRead

\* C8: the derivation of a computed value is run by a read of .value only
\* (never by the trigger that notifies it); the scheduler sets the dirty
\* flag before it notifies the readers, and when the notification of the
\* readers ends every reader was notified, the scheduler-less ones by being
\* put in the update queue.
C8_LazyPropagation ==
    \A j \in 1..Len(ctl) :
       /\ (ctl[j].t = "run" /\ ctl[j].e \in Computeds) =>
             j > 1 /\ ctl[j - 1].t = "cget" /\ ctl[j - 1].e = ctl[j].e
       /\ \A c \in Computeds :
             (ctl[j].t = "trigger" /\ ctl[j].k = ComputedKey(c)) =>
                /\ (j = Len(ctl) /\ ctl[j].i = 1) => dirty[c]
                /\ ctl[j].i > Len(ctl[j].snap) =>
                      /\ ctl[j].hit = Range(ctl[j].snap)
                      /\ Range(ctl[j].snap) \cap PlainEffects \subseteq Range(updateQueue)

\* A write of number.value has notified the computed value, whose scheduler
\* has notified a scheduler-less reader and a watcher; the watcher's read
\* has recomputed the value.
C8_Witness ==
    /\ Running /\ Top.t = "trigger" /\ Top.k = "doubed"
    /\ Top.i > Len(Top.snap)
    /\ {"E1", "W2"} \subseteq Top.hit
    /\ ~dirty["C"]
    /\ cacheValue["C"] = <<1>>

\* C9: the callback of a watcher is invoked only after a write to a key its
\* selector reads; in every invocation newVal is the value of the selector
\* on the current state, and oldVal is the value of the eager run (first
\* invocation) or the newVal of the previous invocation.
C9_WatchCallbackArgs ==
    \A w \in Watchers :
       /\ gh.news[w] # <<>> => w \in gh.wrote
       /\ \A i \in 1..Len(gh.news[w]) :
             /\ gh.news[w][i] = gh.truth[w][i]
             /\ gh.olds[w][i] = IF i = 1 THEN gh.eager[w] ELSE gh.news[w][i - 1]

\* C4: once the system is quiescent every awaitable nextTick returned is
\* settled.
C4_AwaitableSettles ==
    Quiescent => \A i \in 1..Len(promise) : promise[i] # "pending"

\* C10: a call of onMounted / onUpdated made while no component instance is
\* being set up raises an error; one made during a setup appends the
\* function to that instance's hook list.
C10_HookOutsideSetupRaises ==
    \A c \in gh.hookCalls :
       /\ c.active => c.kept /\ ~c.raised
       /\ ~c.active => c.raised

\* The keys the function of effect e reads.
ReadSet(e) ==
    {Fn(e)[i].k : i \in {j \in 1..Len(Fn(e)) : Fn(e)[j].op = "get"}}
        \cup {ComputedKey(Fn(e)[i].e) : i \in {j \in 1..Len(Fn(e)) : Fn(e)[j].op = "cget"}}

\* The effects whose run() is in progress, outermost first.
RunsInProgress ==
    LET idx == SelectSeq([i \in 1..Len(ctl) |-> i], LAMBDA i : ctl[i].t = "run")
    IN [j \in 1..Len(idx) |-> ctl[idx[j]].e]

\* C11: the active effect is the top of the effect stack (none when it is
\* empty); the effect stack holds exactly the effects whose run() is in
\* progress, whether their functions returned or raised; while the function
\* of an effect executes, that effect is the active one, so an effect is
\* only ever subscribed to keys its own function reads; and a failure is
\* never swallowed on its way to the caller of run().
C11_StackDiscipline ==
    /\ activeEffect = StackTop
    /\ effectStack = RunsInProgress
    /\ (ctl # <<>> /\ Top.t = "fn" /\ Top.owner \in Effects) => activeEffect = Top.owner
    /\ \A e \in Effects : \A k \in Keys : Subscribed(e, k) => k \in ReadSet(e)
    /\ gh.thrown = gh.uncaught + (IF exc THEN 1 ELSE 0)

\* The function of the nested effect E3 raised inside the run of E4: the
\* run of E3 has been left, E4 is active again and the failure is on its
\* way through the function of E4.
C11_Witness ==
    /\ exc
    /\ ctl # <<>> /\ Top.t = "fn" /\ Top.owner = "E4"
    /\ effectStack = <<"E4">>
    /\ gh.thrown = 1

\* C12: every callback snapshotted for a round of nextTick is invoked in
\* that round, also when an earlier callback of the round raised.
C12_FailureDoesNotStopRound == gh.skipped = {}

\* C13: between tasks the pending flag of nextTick is set exactly when a
\* flush of nextTick is scheduled, and callbacks wait in the list only when
\* one is; no callback is invoked twice, none of a failed round is invoked
\* again, and once the system is quiescent every callback that was not left
\* behind by a failure of its own round was invoked exactly once.
C13_FailureKeepsScheduling ==
    /\ ctl = <<>> =>
          /\ nextTickPending <=> \E i \in 1..Len(microtasks) : microtasks[i].t = "tick"
          /\ nextTickCallbacks # <<>> => nextTickPending
    /\ \A n \in 1..Len(promise) : Count(gh.invoked, n) <= 1
    /\ gh.skipped \cap Range(gh.invoked) = {}
    /\ Quiescent => \A n \in 1..Len(promise) : n \notin gh.skipped => Count(gh.invoked, n) = 1

\* The first round of nextTick failed; a callback registered after it was
\* invoked in a round of its own, and that round's awaitable resolved.
C13_Witness ==
    /\ Quiescent
    /\ Len(promise) = 2
    /\ promise[1] = "rejected" /\ promise[2] = "resolved"
    /\ gh.invoked = <<1, 2>>

\* C14: the callbacks of nextTick are invoked in the order of registration,
\* none twice; when no callback raised, every callback registered has been
\* invoked once the system is quiescent.
C14_RegistrationOrder ==
    /\ \A i, j \in 1..Len(gh.invoked) : i < j => gh.invoked[i] < gh.invoked[j]
    /\ (Quiescent /\ gh.thrown = 0) => gh.invoked = [n \in 1..Len(promise) |-> n]

\* Two callbacks were registered by the script, the first of which
\* registered a third from inside its round; all three ran, in order.
C14_Witness ==
    /\ Quiescent /\ gh.thrown = 0
    /\ Len(gh.regs) = 3
    /\ gh.regs[1].f = "T3" /\ gh.regs[2].from = "user" /\ gh.regs[3].from = "tick"
    /\ gh.invoked = <<1, 2, 3>>

\* C15: a callback handed to nextTick by the script is invoked only after
\* every scheduler-less effect that was waiting in the update queue when
\* nextTick was called has been rerun.
C15_TickAfterFlush == gh.early = {}

\* The hook invocations c complete runs of the render effect of r are to
\* make: every mounted hook in the first run, every updated hook in each
\* later one, each list in the order of registration.
ExpectedHooks(r, c) ==
    LET M == inst[r].hooks.mounted
        U == inst[r].hooks.updated
    IN IF c = 0 THEN <<>>
       ELSE [i \in 1..(Len(M) + (c - 1) * Len(U)) |->
               IF i <= Len(M) THEN [h |-> M[i], phase |-> "mounted", run |-> 1]
               ELSE [h |-> U[((i - Len(M) - 1) % Len(U)) + 1], phase |-> "updated",
                     run |-> 2 + ((i - Len(M) - 1) \div Len(U))]]

IsPrefix(a, b) == Len(a) <= Len(b) /\ a = SubSeq(b, 1, Len(a))

\* The hook invocations made so far, without the node they received.
HooksRun == [i \in 1..Len(gh.hookLog) |->
               [h |-> gh.hookLog[i].h, phase |-> gh.hookLog[i].phase,
                run |-> gh.hookLog[i].run]]

\* C16: the hooks invoked so far are the mounted hooks once, in the first
\* run of the render effect, followed by the updated hooks once per later
\* run, each list in registration order; hooks are invoked only after the
\* patch of their run.
C16_LifecycleOrder ==
    \A r \in RenderEffects :
       /\ IsPrefix(ExpectedHooks(r, gh.renderDone), HooksRun)
       /\ IsPrefix(HooksRun, ExpectedHooks(r, gh.renderDone + 1))
       /\ gh.renderRuns = gh.renderDone => HooksRun = ExpectedHooks(r, gh.renderDone)
       /\ gh.hookLog # <<>> => inst[r].isMounted

\* The component was mounted and its render effect has rerun twice.
C16_Witness ==
    /\ ctl = <<>>
    /\ gh.renderDone = 3
    /\ Len(gh.hookLog) = 6
    /\ gh.hookLog[2].h = "h4" /\ gh.hookLog[3].h = "h2" /\ gh.hookLog[6].h = "h3"

\* C17: a bucket is in the subscription set of an effect exactly when the
\* effect is a member of the bucket; in particular the set is empty after
\* cleanup().
C17_DepsMatchBuckets ==
    \A e \in Effects : \A k \in Keys : k \in deps[e] <=> Subscribed(e, k)

\* C18: between runs of the render effect of a mounted component, the
\* container holds exactly one host node for it, the node recorded on the
\* instance's current tree.
C18_OneHostNode ==
    \A r \in RenderEffects :
       (ctl = <<>> /\ inst[r].vnode # <<>>) => dom = <<inst[r].vnode[1].el>>

\* C19: every invocation of an updated hook receives a host node that is in
\* the container at that moment.
C19_HookGetsHostNode ==
    \A i \in 1..Len(gh.hookLog) :
       gh.hookLog[i].phase = "updated" =>
          /\ gh.hookLog[i].el # 0
          /\ gh.hookLog[i].el \in Range(gh.hookLog[i].dom)

\* C20: no slot of the parent's tree ever gets a second component
\* instance: the child's setup runs once, whatever the depth of the slot.
C20_ChildInstanceReused ==
    \A sl \in Slots : Cardinality({i \in 1..Len(comps) : comps[i].slot = sl}) <= 1

\* C21: a trigger notifies members of the bucket as it was when the trigger
\* started, none of them twice, and all of them by the time it ends; so the
\* number of notifications of one trigger is at most the size of the bucket
\* at its start, also when a notified watcher left and rejoined the bucket.
C21_SnapshotNotifiedOnce ==
    \A j \in 1..Len(ctl) :
       ctl[j].t = "trigger" =>
          /\ \A a, b \in 1..Len(ctl[j].calls) : a # b => ctl[j].calls[a] # ctl[j].calls[b]
          /\ Range(ctl[j].calls) \subseteq Range(ctl[j].snap)
          /\ Len(ctl[j].calls) <= Len(ctl[j].snap)
          /\ ctl[j].i > Len(Members(ctl[j])) => Range(ctl[j].calls) = Range(ctl[j].snap)

\* A write of state.count is notifying two watchers: the scheduler of the
\* first has returned, having left the bucket and rejoined it behind the
\* second, and the trigger goes on with the second.
C21_Witness ==
    /\ Running /\ Top.t = "trigger" /\ Top.k = "count"
    /\ Top.snap = <<"W2", "W1">>
    /\ Top.calls = <<"W2">>
    /\ targetMap["count"] = <<"W1", "W2">>

\* ------------------------------------------------- C22: flush scheduling

\* The render-flush microtasks the host holds.
FlushesOutstanding == {j \in 1..Len(microtasks) : microtasks[j].t = "flush"}

\* The flush microtask is running.
InDrain == ctl # <<>> /\ ctl[1].t = "flush"

\* A trigger has not reached the statement after its loop.
InTriggerLoop == \E j \in 1..Len(ctl) : ctl[j].t = "trigger"

FlushState ==
    /\ Cardinality(FlushesOutstanding) <= 1
    /\ updatePendding <=> FlushesOutstanding # {}
    /\ (updateQueue # <<>> /\ ~InDrain /\ ~InTriggerLoop /\ ~gh.aborted) => updatePendding
    /\ (InDrain /\ Len(ctl) = 1 /\ ctl[1].i = 1) => ~updatePendding

\* The flush microtask returns.
FlushCompletes == InDrain /\ Len(ctl) = 1 /\ ~exc /\ ctl' = <<>>

\* C22: at most one render-flush microtask is outstanding and updatePendding
\* is true exactly when one is; as long as no drain was cut short by an
\* effect that raised, a non-empty update queue outside a drain and outside
\* the loop of a trigger has a flush pending; a flush has set the flag to
\* false when it starts running effects, and its return leaves the update
\* queue empty.
C22_FlushScheduling ==
    /\ []FlushState
    /\ [][FlushCompletes => updateQueue' = <<>>]_vars

\* An effect wrote during the drain: the flush returned, the update queue
\* is empty and the flush that write queued is outstanding.
C22_Witness ==
    /\ ctl = <<>> /\ ~inTask
    /\ updateQueue = <<>>
    /\ updatePendding
    /\ microtasks = <<FlushTask>>
    /\ "E5" \in created

\* --------------------------------------------- C23: queued effects are run

\* C23: an effect put in the update queue is run by the flush it was queued
\* for or by one that is outstanding, also when the run of another member
\* raised: once the call stack is empty and no flush is outstanding, the
\* update queue holds no effect that the last flush did not run.
C23_QueuedEffectIsRun ==
    (ctl = <<>> /\ FlushesOutstanding = {}) =>
        \A e \in Range(updateQueue) : gh.flushRuns[e] > 0

\* ------------------------------------- C25: an effect writing what it reads

\* Nothing is running, queued or scheduled.
Settled == ctl = <<>> /\ updateQueue = <<>> /\ ~updatePendding /\ microtasks = <<>>

\* C25: once watchEffect has made E5, which reads number.value and then
\* writes it, the runtime always comes to rest again (update queue empty, no
\* flush pending, nothing running) without a further write by the script:
\* the reruns of E5 do not go on forever.
C25_SelfWriterSettles == ("E5" \in created) ~> Settled

\* The script only made E5; its first flush reran it and the second one
\* found the update queue empty.
C25_Witness ==
    /\ gh.ops = 1 /\ created = Computeds \cup {"E5"}
    /\ Settled /\ ~inTask
    /\ val["number"] = 1
    /\ targetMap["number"] = <<"E5">>

\* ------------------------------------------ C24: the current instance

\* setupComponent is executing.
InSetup == \E j \in 1..Len(ctl) : ctl[j].t = "setup"

\* C24: currentInstance is set only while setupComponent is executing (it is
\* null before, and null after setup returned or raised), and a hook
\* registered outside any setup is in the hook list of no instance.
C24_InstanceOnlyDuringSetup ==
    /\ currentInstance # None => InSetup
    /\ \A r \in DOMAIN inst :
          /\ "h5" \notin Range(inst[r].hooks.mounted)
          /\ "h6" \notin Range(inst[r].hooks.updated)

\* ------------------------------------------- C26: two wrappers, one record

\* The number of times e occurs in the sequence q.
Occurrences(q, e) == Cardinality({a \in 1..Len(q) : q[a] = e})

\* No run of an effect is in progress.
NoRun == \A j \in 1..Len(ctl) : ctl[j].t # "run"

\* The script's write of state.count has returned from trigger.
WriteDone ==
    /\ Len(ctl) = 1 /\ ctl[1].t = "fn" /\ ctl[1].owner = "user"
    /\ ctl[1].code[1].op = "set" /\ ctl[1].pc = 2

====
